---- MODULE Spec2Model ----
(***************************************************************************)
(* Authentication / authorization flow of the travel-offers web            *)
(* application (src/main.py, src/models.py).                               *)
(*                                                                         *)
(* State: the users table, the wall clock the token expiry is compared     *)
(* with, the bearer tokens that login has handed out, and the response to  *)
(* the last request.  Each handler is an operator from the request and the *)
(* state it reads to its outcome; each route is an action that applies its *)
(* handler.  A request is handled atomically (one session per request).    *)
(*                                                                         *)
(* auth.py and database.py are not part of the sources at hand: the        *)
(* password hasher and the token service are modelled from sections 4.1    *)
(* and 4.2 of the specification.                                           *)
(***************************************************************************)
EXTENDS Integers, Sequences, FiniteSets, TLC

\* ---------------------------------------------------------------- bounds
\* Last instant of the wall clock.
MaxTime == 2

\* ---------------------------------------------------------------- inputs
\* Form values; FastAPI's Form() answers 422 to an empty field, so every
\* username and password that reaches a handler is a non-empty string.
\* The unique constraint on users.username keeps the table no longer than
\* this set is large.
Usernames == {"alice", "bob"}
Passwords == {"pw1", "pw2"}
\* The password each person registers with; a login may submit any of
\* Passwords, so it is tried with the account's own password and with the
\* other account's.
OwnPassword == [u \in Usernames |-> IF u = "alice" THEN "pw1" ELSE "pw2"]
\* Path parameter user_id: every id a row can have, and one no row has.
UserIds == 1..(Cardinality(Usernames) + 1)

\* ------------------------------------------------------- password hasher
\* hash(plaintext): one-way transform.  The salt is left inside the opaque
\* digest: the handlers only ever hand a hash back to verify.
hash_password(plain) == <<"hashed", plain>>

\* verify(plaintext, hash): true iff the plaintext is the hash's origin.
verify_password(plain, hashed) == hashed = <<"hashed", plain>>

\* ---------------------------------------------------------- token service
\* Lifetime of a token, in clock ticks.
TokenTTL == 1

\* The cookie values a request can carry.
\*   none    : no cookie (the parameter's default, None)
\*   empty   : the cookie is the empty string
\*   garbage : a string that is malformed or not signed with the key
\*   jwt     : a signed token with a subject and an expiry
\*   nosub   : a signed token whose payload has no "sub" entry
NoToken == [kind |-> "none", sub |-> "", exp |-> 0]
EmptyToken == [kind |-> "empty", sub |-> "", exp |-> 0]
GarbageToken == [kind |-> "garbage", sub |-> "", exp |-> 0]
Jwt(sub, exp) == [kind |-> "jwt", sub |-> sub, exp |-> exp]
NoSubToken(exp) == [kind |-> "nosub", sub |-> "", exp |-> exp]

\* issue(username): a signed token embedding the subject and an expiry.
create_access_token(username, t) == Jwt(username, t + TokenTTL)

\* decode(token) raises (JWTError) when the signature is invalid, the
\* structure is malformed, or the token is expired.
decode_raises(token, t) ==
    \/ token.kind \notin {"jwt", "nosub"}
    \/ token.exp < t

\* decode(token): the payload of a token that decodes.
decode_token(token) == [has_sub |-> token.kind = "jwt", sub |-> token.sub]

\* ------------------------------------------------------------- the store
VARIABLES
    users,   \* the users table: a sequence of rows, row i has id i
    now,     \* the wall clock
    issued,  \* the tokens login has handed out so far
    resp,    \* the response to the last request handled
    inflight,\* per worker thread, the request it is handling between its
             \* reads and its commit
    base     \* the users table when the requests in flight began

vars == <<users, now, issued, resp, inflight, base>>

\* A row of the users table; is_blocked takes the column's default.
User(id, username, password, is_admin) ==
    [id |-> id, username |-> username, password |-> password,
     is_admin |-> is_admin, is_blocked |-> FALSE]

\* db.query(User).filter(User.username == name).first(): the id of the
\* first row with that username, 0 when there is none.
FirstByUsername(table, name) ==
    LET hits == {i \in 1..Len(table) : table[i].username = name}
    IN  IF hits = {} THEN 0 ELSE CHOOSE i \in hits : \A j \in hits : i <= j

\* db.query(User).filter(User.id == user_id).first() and
\* db.query(User).get(user_id): the id of the row, 0 when there is none.
ById(table, user_id) ==
    IF user_id \in 1..Len(table) THEN user_id ELSE 0

\* The unique constraint on users.username: would inserting name violate it?
UniqueViolation(table, name) ==
    \E i \in 1..Len(table) : table[i].username = name

\* ------------------------------------------------------ session resolver
\* Required mode with the is_blocked test left out.
get_current_user_NoBlockCheck(token, table, t) ==
    IF token.kind \in {"none", "empty"}
    THEN [status |-> 401, uid |-> 0]
    ELSE IF decode_raises(token, t)
    THEN [status |-> 401, uid |-> 0]
    ELSE IF ~decode_token(token).has_sub
    THEN [status |-> 500, uid |-> 0]
    ELSE LET uid == FirstByUsername(table, decode_token(token).sub)
         IN  IF uid = 0
             THEN [status |-> 403, uid |-> 0]
             ELSE [status |-> 200, uid |-> uid]

\* Required mode with the decode inside the block that answers 403: a token
\* that does not decode is answered like an unknown user.
get_current_user_DecodeForbidden(token, table, t) ==
    IF token.kind \in {"none", "empty"}
    THEN [status |-> 401, uid |-> 0]
    ELSE IF decode_raises(token, t)
    THEN [status |-> 403, uid |-> 0]
    ELSE IF ~decode_token(token).has_sub
    THEN [status |-> 500, uid |-> 0]
    ELSE LET uid == FirstByUsername(table, decode_token(token).sub)
         IN  IF uid = 0 \/ table[uid].is_blocked
             THEN [status |-> 403, uid |-> 0]
             ELSE [status |-> 200, uid |-> uid]

\* Required mode.  Result: the status (200 when a user is returned) and
\* the id of the user returned (0 when none).
get_current_user(token, table, t) ==
    IF token.kind \in {"none", "empty"}
    THEN [status |-> 401, uid |-> 0]
    ELSE IF decode_raises(token, t)
    THEN [status |-> 401, uid |-> 0]
    ELSE IF ~decode_token(token).has_sub
    THEN [status |-> 500, uid |-> 0]
    ELSE LET uid == FirstByUsername(table, decode_token(token).sub)
         IN  IF uid = 0 \/ table[uid].is_blocked
             THEN [status |-> 403, uid |-> 0]
             ELSE [status |-> 200, uid |-> uid]

\* Optional mode with the is_blocked test left out.
get_current_user_optional_NoBlockCheck(token, table, t) ==
    IF token.kind = "none"
    THEN 0
    ELSE IF decode_raises(token, t)
    THEN 0
    ELSE IF ~decode_token(token).has_sub \/ decode_token(token).sub = ""
    THEN 0
    ELSE FirstByUsername(table, decode_token(token).sub)

\* Optional mode.  Result: the id of the user returned, 0 for None.
get_current_user_optional(token, table, t) ==
    IF token.kind = "none"
    THEN 0
    ELSE IF decode_raises(token, t)
    THEN 0
    ELSE IF ~decode_token(token).has_sub \/ decode_token(token).sub = ""
    THEN 0
    ELSE LET uid == FirstByUsername(table, decode_token(token).sub)
         IN  IF uid = 0 \/ table[uid].is_blocked THEN 0 ELSE uid

\* ------------------------------------------------------------- handlers
\* The outcome of a handler: the status of the response, what the response
\* does to the "token" cookie ("keep", "delete", or "set" with the token
\* set), the id of the user a rendered page is rendered for (0 for none),
\* and the users table the request leaves behind.
Outcome(status, table) ==
    [status |-> status, cookie |-> "keep", token |-> NoToken, user |-> 0,
     users |-> table]

\* def index(request, user)
index(token, table, t) ==
    [Outcome(200, table) EXCEPT
        !.user = get_current_user_optional(token, table, t)]

\* The keys of OFFERS.
OFFERS == 1..4
\* Path parameter offer_id: an offer there is, and one there is not.
OfferIds == {1, 5}

\* RedirectResponse(location, status_code=302).
Redirect(location, table) ==
    Outcome(302, table) @@ ("location" :> location)

\* offer_page depending on required mode: no user is answered 401 or 403.
offer_page_Required(token, offer_id, table, t) ==
    LET r == get_current_user(token, table, t)
    IN  IF r.status # 200
        THEN Outcome(r.status, table)
        ELSE IF offer_id \notin OFFERS
        THEN Outcome(500, table)
        ELSE [Outcome(200, table) EXCEPT !.user = r.uid]

\* def offer_page(offer_id, request, db, user); OFFERS[offer_id] raises
\* KeyError for an unknown id, which is answered 500.
offer_page(token, offer_id, table, t) ==
    LET user == get_current_user_optional(token, table, t)
    IN  IF user = 0
        THEN Redirect("/login", table)
        ELSE IF offer_id \notin OFFERS
        THEN Outcome(500, table)
        ELSE [Outcome(200, table) EXCEPT !.user = user]

\* register taking the table for new while it holds at most one row.
register_FirstTwoAdmin(username, password, table) ==
    LET is_first_user == Len(table) <= 1
        user == User(Len(table) + 1, username,
                     hash_password(password), is_first_user)
    IN  IF UniqueViolation(table, username)
        THEN Outcome(500, table)
        ELSE Outcome(302, Append(table, user))

\* register on a table whose username column is not unique.
register_NoUnique(username, password, table) ==
    LET is_first_user == Len(table) = 0
        user == User(Len(table) + 1, username,
                     hash_password(password), is_first_user)
    IN  Outcome(302, Append(table, user))

\* def register(username, password, db)
register(username, password, table) ==
    LET is_first_user == Len(table) = 0
        user == User(Len(table) + 1, username,
                     hash_password(password), is_first_user)
    IN  IF UniqueViolation(table, username)
        THEN Outcome(500, table)
        ELSE Outcome(302, Append(table, user))

\* login with the is_blocked test left out.
login_NoBlockCheck(username, password, table, t) ==
    LET uid == FirstByUsername(table, username)
    IN  IF uid = 0 \/ ~verify_password(password, table[uid].password)
        THEN Outcome(401, table)
        ELSE [Outcome(302, table) EXCEPT
                 !.cookie = "set",
                 !.token = create_access_token(table[uid].username, t)]

\* login with the password test left out.
login_NoPasswordCheck(username, password, table, t) ==
    LET uid == FirstByUsername(table, username)
    IN  IF uid = 0
        THEN Outcome(401, table)
        ELSE IF table[uid].is_blocked
        THEN Outcome(403, table)
        ELSE [Outcome(302, table) EXCEPT
                 !.cookie = "set",
                 !.token = create_access_token(table[uid].username, t)]

\* def login(username, password, db)
login(username, password, table, t) ==
    LET uid == FirstByUsername(table, username)
    IN  IF uid = 0 \/ ~verify_password(password, table[uid].password)
        THEN Outcome(401, table)
        ELSE IF table[uid].is_blocked
        THEN Outcome(403, table)
        ELSE [Outcome(302, table) EXCEPT
                 !.cookie = "set",
                 !.token = create_access_token(table[uid].username, t)]

\* logout that ends the sessions on the server by blocking every account.
logout_Invalidating(table) ==
    [Outcome(302, [i \in 1..Len(table) |->
                      [table[i] EXCEPT !.is_blocked = TRUE]])
        EXCEPT !.cookie = "delete"]

\* def logout()
logout(table) ==
    [Outcome(302, table) EXCEPT !.cookie = "delete"]

\* admin_panel with the is_admin test left out.
admin_panel_NoAdminCheck(token, table, t) ==
    LET r == get_current_user(token, table, t)
    IN  IF r.status # 200
        THEN Outcome(r.status, table)
        ELSE [Outcome(200, table) EXCEPT !.user = r.uid]

\* def admin_panel(request, db, admin)
admin_panel(token, table, t) ==
    LET r == get_current_user(token, table, t)
    IN  IF r.status # 200
        THEN Outcome(r.status, table)
        ELSE IF ~table[r.uid].is_admin
        THEN Outcome(403, table)
        ELSE [Outcome(200, table) EXCEPT !.user = r.uid]

\* block_user with the test against the caller's own id left out.
block_user_NoSelfGuard(token, user_id, table, t) ==
    LET r == get_current_user(token, table, t)
        target == ById(table, user_id)
    IN  IF r.status # 200
        THEN Outcome(r.status, table)
        ELSE IF ~table[r.uid].is_admin
        THEN Outcome(403, table)
        ELSE IF target = 0
        THEN Outcome(404, table)
        ELSE Outcome(302, [table EXCEPT ![target].is_blocked = ~@])

\* block_user with the is_admin test left out.
block_user_NoAdminCheck(token, user_id, table, t) ==
    LET r == get_current_user(token, table, t)
        target == ById(table, user_id)
    IN  IF r.status # 200
        THEN Outcome(r.status, table)
        ELSE IF target = 0
        THEN Outcome(404, table)
        ELSE IF table[target].id = table[r.uid].id
        THEN Outcome(400, table)
        ELSE Outcome(302, [table EXCEPT ![target].is_blocked = ~@])

\* block_user looking the target up before it tests the caller's is_admin.
block_user_LookupFirst(token, user_id, table, t) ==
    LET r == get_current_user(token, table, t)
        target == ById(table, user_id)
    IN  IF r.status # 200
        THEN Outcome(r.status, table)
        ELSE IF target = 0
        THEN Outcome(404, table)
        ELSE IF ~table[r.uid].is_admin
        THEN Outcome(403, table)
        ELSE IF table[target].id = table[r.uid].id
        THEN Outcome(400, table)
        ELSE Outcome(302, [table EXCEPT ![target].is_blocked = ~@])

\* def block_user(user_id, db, admin)
block_user(token, user_id, table, t) ==
    LET r == get_current_user(token, table, t)
        target == ById(table, user_id)
    IN  IF r.status # 200
        THEN Outcome(r.status, table)
        ELSE IF ~table[r.uid].is_admin
        THEN Outcome(403, table)
        ELSE IF target = 0
        THEN Outcome(404, table)
        ELSE IF table[target].id = table[r.uid].id
        THEN Outcome(400, table)
        ELSE Outcome(302, [table EXCEPT ![target].is_blocked = ~@])

\* toggle_admin_cookie that also lifts the target's block.
toggle_admin_cookie_AlsoUnblocks(token, user_id, table, t) ==
    LET r == get_current_user(token, table, t)
        target == ById(table, user_id)
    IN  IF r.status # 200
        THEN Outcome(r.status, table)
        ELSE IF ~table[r.uid].is_admin
        THEN Outcome(403, table)
        ELSE IF target = 0
        THEN Outcome(404, table)
        ELSE IF table[target].id = table[r.uid].id
        THEN Outcome(400, table)
        ELSE Outcome(302, [table EXCEPT ![target].is_admin = ~@,
                                        ![target].is_blocked = FALSE])

\* toggle_admin_cookie with the test against the caller's own id left out.
toggle_admin_cookie_NoSelfGuard(token, user_id, table, t) ==
    LET r == get_current_user(token, table, t)
        target == ById(table, user_id)
    IN  IF r.status # 200
        THEN Outcome(r.status, table)
        ELSE IF ~table[r.uid].is_admin
        THEN Outcome(403, table)
        ELSE IF target = 0
        THEN Outcome(404, table)
        ELSE Outcome(302, [table EXCEPT ![target].is_admin = ~@])

\* def toggle_admin_cookie(user_id, db, current_user)
toggle_admin_cookie(token, user_id, table, t) ==
    LET r == get_current_user(token, table, t)
        target == ById(table, user_id)
    IN  IF r.status # 200
        THEN Outcome(r.status, table)
        ELSE IF ~table[r.uid].is_admin
        THEN Outcome(403, table)
        ELSE IF target = 0
        THEN Outcome(404, table)
        ELSE IF table[target].id = table[r.uid].id
        THEN Outcome(400, table)
        ELSE Outcome(302, [table EXCEPT ![target].is_admin = ~@])

\* --------------------------------------------------------------- routes
\* The response recorded for a request: the route, and the handler's
\* status and cookie effect.
Response(op, out) ==
    [op |-> op, status |-> out.status, cookie |-> out.cookie,
     token |-> out.token, user |-> out.user]
NoResp == [op |-> "none", status |-> 0, cookie |-> "keep", token |-> NoToken,
           user |-> 0]

\* The cookies a client can send: none, junk, or a token login handed out.
Presentable == {NoToken, GarbageToken} \cup issued

\* The worker threads that handle requests side by side.
Workers == {1, 2}

\* A worker with no request: what it records of a request is the handler
\* (op), the request's cookie and parameters, where the handler stands (pc:
\* "idle", "read" once its reads are done and its write is pending in the
\* session, "done"), the status of its response, the flag value pending in
\* the session, and its place in the order of commits (0 before it).
Idle ==
    [pc |-> "idle", op |-> "none", token |-> NoToken, user_id |-> 0,
     username |-> "", status |-> 0, flag |-> FALSE, seq |-> 0]

Init ==
    /\ users = <<>>
    /\ now = 0
    /\ issued = {}
    /\ resp = NoResp
    /\ inflight = [w \in Workers |-> Idle]
    /\ base = <<>>

\* GET /
GetIndex(token) ==
    LET out == index(token, users, now)
    IN  /\ users' = out.users
        /\ resp' = Response("index", out)
        /\ UNCHANGED <<inflight, base>>
        /\ UNCHANGED <<now, issued>>

\* GET /offer/{offer_id}
GetOffer(token, offer_id) ==
    LET out == offer_page(token, offer_id, users, now)
    IN  /\ users' = out.users
        /\ resp' = Response("offer_page", out)
        /\ UNCHANGED <<inflight, base>>
        /\ UNCHANGED <<now, issued>>

\* POST /register
PostRegister(username, password) ==
    LET out == register(username, password, users)
    IN  /\ users' = out.users
        /\ resp' = Response("register", out)
        /\ UNCHANGED <<inflight, base>>
        /\ UNCHANGED <<now, issued>>

\* POST /login
PostLogin(username, password) ==
    LET out == login(username, password, users, now)
    IN  /\ users' = out.users
        /\ resp' = Response("login", out)
        /\ UNCHANGED <<inflight, base>>
        /\ issued' = IF out.cookie = "set"
                     THEN issued \cup {out.token} ELSE issued
        /\ now' = now

\* GET /logout
GetLogout ==
    LET out == logout(users)
    IN  /\ users' = out.users
        /\ resp' = Response("logout", out)
        /\ UNCHANGED <<inflight, base>>
        /\ UNCHANGED <<now, issued>>

\* GET /admin
GetAdmin(token) ==
    LET out == admin_panel(token, users, now)
    IN  /\ users' = out.users
        /\ resp' = Response("admin_panel", out)
        /\ UNCHANGED <<inflight, base>>
        /\ UNCHANGED <<now, issued>>

\* POST /admin/block/{user_id}
PostAdminBlock(token, user_id) ==
    LET out == block_user(token, user_id, users, now)
    IN  /\ users' = out.users
        /\ resp' = Response("block_user", out)
        /\ UNCHANGED <<inflight, base>>
        /\ UNCHANGED <<now, issued>>

\* POST /admin/make_admin/{user_id}
PostAdminMakeAdmin(token, user_id) ==
    LET out == toggle_admin_cookie(token, user_id, users, now)
    IN  /\ users' = out.users
        /\ resp' = Response("make_admin", out)
        /\ UNCHANGED <<inflight, base>>
        /\ UNCHANGED <<now, issued>>

\* The clock advances between requests.
Tick ==
    /\ now < MaxTime
    /\ now' = now + 1
    /\ resp' = NoResp
    /\ UNCHANGED <<users, issued, inflight, base>>

Next ==
    \/ \E t \in Presentable : GetIndex(t)
    \/ \E t \in Presentable, o \in OfferIds : GetOffer(t, o)
    \/ \E u \in Usernames : PostRegister(u, OwnPassword[u])
    \/ \E u \in Usernames, p \in Passwords : PostLogin(u, p)
    \/ GetLogout
    \/ \E t \in Presentable : GetAdmin(t)
    \/ \E t \in Presentable, id \in UserIds : PostAdminBlock(t, id)
    \/ \E t \in Presentable, id \in UserIds : PostAdminMakeAdmin(t, id)
    \/ Tick

Spec == Init /\ [][Next]_vars

\* ------------------------------------------------- requests side by side
\* The handlers are plain functions, run on worker threads, each with a
\* session of its own and no lock: what a handler reads, it reads when it
\* runs its queries; what it writes reaches the table at db.commit().
\* Between the two, another worker's request may read or commit.

AllIdle == \A w \in Workers : inflight[w].pc = "idle"

\* The number of requests that have committed.
Committed == Cardinality({w \in Workers : inflight[w].seq > 0})

\* A worker takes a request: the table as the requests in flight found it
\* is kept when the first of them begins.
Take(w, entry) ==
    /\ inflight[w].pc = "idle"
    /\ inflight' = [inflight EXCEPT ![w] = entry]
    /\ base' = IF AllIdle THEN users ELSE base
    /\ resp' = NoResp
    /\ UNCHANGED <<users, now, issued>>

\* register up to db.add(user): the count is read and the row is built.
ReadRegister(w, username) ==
    Take(w, [Idle EXCEPT !.pc = "read", !.op = "register",
                         !.username = username,
                         !.flag = (Len(users) = 0)])

\* block_user up to db.commit(): the caller is resolved, the checks are
\* made on the rows as read, and the flipped flag is pending in the
\* session.  A request that fails a check is answered at once.
ReadBlock(w, token, user_id) ==
    LET out == block_user(token, user_id, users, now)
    IN  Take(w, [Idle EXCEPT
                    !.pc = IF out.status = 302 THEN "read" ELSE "done",
                    !.op = "block_user",
                    !.token = token, !.user_id = user_id,
                    !.status = out.status,
                    !.flag = IF out.status = 302
                             THEN out.users[user_id].is_blocked ELSE FALSE])

\* toggle_admin_cookie up to db.commit().
ReadMakeAdmin(w, token, user_id) ==
    LET out == toggle_admin_cookie(token, user_id, users, now)
    IN  Take(w, [Idle EXCEPT
                    !.pc = IF out.status = 302 THEN "read" ELSE "done",
                    !.op = "make_admin",
                    !.token = token, !.user_id = user_id,
                    !.status = out.status,
                    !.flag = IF out.status = 302
                             THEN out.users[user_id].is_admin ELSE FALSE])

\* db.commit() of register: the row is inserted with the next id, unless
\* the unique constraint on username refuses it.
CommitRegister(w) ==
    LET r == inflight[w]
        refused == UniqueViolation(users, r.username)
        user == User(Len(users) + 1, r.username,
                     hash_password(OwnPassword[r.username]), r.flag)
    IN  /\ r.pc = "read" /\ r.op = "register"
        /\ users' = IF refused THEN users ELSE Append(users, user)
        /\ inflight' = [inflight EXCEPT
                           ![w].pc = "done",
                           ![w].status = IF refused THEN 500 ELSE 302,
                           ![w].seq = Committed + 1]
        /\ UNCHANGED <<now, issued, resp, base>>

\* db.commit() of a toggle: the session writes the one column it changed
\* to the row with the target's id.
CommitToggle(w) ==
    LET r == inflight[w]
    IN  /\ r.pc = "read" /\ r.op \in {"block_user", "make_admin"}
        /\ users' = IF r.op = "block_user"
                    THEN [users EXCEPT ![r.user_id].is_blocked = r.flag]
                    ELSE [users EXCEPT ![r.user_id].is_admin = r.flag]
        /\ inflight' = [inflight EXCEPT ![w].pc = "done",
                                        ![w].seq = Committed + 1]
        /\ UNCHANGED <<now, issued, resp, base>>

\* Requests that do not overlap another: handled as in Spec.
Alone ==
    /\ AllIdle
    /\ \/ \E u \in Usernames : PostRegister(u, OwnPassword[u])
       \/ \E u \in Usernames : PostLogin(u, OwnPassword[u])
       \/ \E t \in issued, id \in UserIds : PostAdminBlock(t, id)
       \/ \E t \in issued, id \in UserIds : PostAdminMakeAdmin(t, id)

NextConc ==
    \/ Alone
    \/ \E w \in Workers, u \in Usernames : ReadRegister(w, u)
    \/ \E w \in Workers, t \in issued, id \in UserIds : ReadBlock(w, t, id)
    \/ \E w \in Workers, t \in issued, id \in UserIds :
          ReadMakeAdmin(w, t, id)
    \/ \E w \in Workers : CommitRegister(w)
    \/ \E w \in Workers : CommitToggle(w)

SpecConc == Init /\ [][NextConc]_vars

\* ================================================================ claims
\* The ids of the rows.
Rows == 1..Len(users)

\* The rows whose username is name.
RowsNamed(name) == {i \in Rows : users[i].username = name}

\* Every cookie value the resolvers can be handed: none, the empty string,
\* junk, and a signed token for any subject and expiry.
TokenInputs ==
    {NoToken, EmptyToken, GarbageToken}
        \cup {Jwt(u, e) : u \in Usernames, e \in 0..(MaxTime + TokenTTL)}

\* C1: a step that creates an account adds exactly one row, and the row
\* has is_admin = TRUE iff the table was empty before the step, that is iff
\* it is the first account ever created (rows are never removed).
C1_BootstrapAdmin ==
    [][Len(users') # Len(users) =>
          /\ Len(users') = Len(users) + 1
          /\ SubSeq(users', 1, Len(users)) = users
          /\ users'[Len(users')].is_admin = (Len(users) = 0)]_vars

\* Two accounts were created: the first as admin, the second not.
C1_Witness ==
    /\ Len(users) = 2
    /\ resp.op = "register" /\ resp.status = 302
    /\ users[1].is_admin /\ ~users[2].is_admin

\* C2 as stated: once user u is blocked, a login for u with the correct
\* password is answered 403 after every later step.  block_user flips
\* is_blocked, so a second block request of an admin undoes the first.
C2_OnceBlockedAlwaysForbidden ==
    [][\A i \in Rows :
          users[i].is_blocked =>
              \A p \in Passwords :
                  verify_password(p, users[i].password) =>
                      login(users'[i].username, p, users', now').status = 403]_vars

\* C2, amended: while user u has is_blocked = TRUE, a login for u with the
\* correct password is answered 403 and sets no token, and optional mode
\* returns no user for every token that login handed out to u.
C2_BlockedLoginForbidden ==
    \A i \in Rows :
        users[i].is_blocked =>
            /\ \A p \in Passwords :
                  verify_password(p, users[i].password) =>
                      LET out == login(users[i].username, p, users, now)
                      IN  /\ out.status = 403
                          /\ out.cookie = "keep"
                          /\ out.token = NoToken
            /\ \A t \in issued :
                  t.sub = users[i].username =>
                      get_current_user_optional(t, users, now) = 0

\* The scenario's end: bob holds a token from before the block that has
\* not expired, bob is blocked, and bob's login has just been answered 403.
C2_Witness ==
    /\ Len(users) = 2
    /\ users[1].is_admin /\ ~users[1].is_blocked
    /\ users[2].is_blocked
    /\ \E t \in issued : t.sub = users[2].username /\ t.exp >= now
    /\ resp.op = "login" /\ resp.status = 403

\* C3: a block or make_admin request of an admin whose user_id is the
\* admin's own id is answered 400 and leaves the users table as it was.
C3_SelfTargetRejected ==
    \A t \in Presentable :
        LET r == get_current_user(t, users, now)
        IN  (r.status = 200 /\ users[r.uid].is_admin) =>
                LET b == block_user(t, users[r.uid].id, users, now)
                    m == toggle_admin_cookie(t, users[r.uid].id, users, now)
                IN  /\ b.status = 400 /\ b.users = users
                    /\ m.status = 400 /\ m.users = users

\* A request has just been answered 400.
C3_Witness ==
    /\ resp.op \in {"block_user", "make_admin"}
    /\ resp.status = 400
    /\ \E t \in issued :
          LET r == get_current_user(t, users, now)
          IN  r.status = 200 /\ users[r.uid].is_admin

\* C4: for a caller who resolves to a user with is_admin = FALSE, GET /admin
\* and, for every user_id, block and make_admin are answered 403 and leave
\* the users table as it was.
C4_NonAdminForbidden ==
    \A t \in Presentable :
        LET r == get_current_user(t, users, now)
        IN  (r.status = 200 /\ ~users[r.uid].is_admin) =>
                /\ admin_panel(t, users, now).status = 403
                /\ admin_panel(t, users, now).users = users
                /\ \A id \in UserIds :
                      /\ block_user(t, id, users, now).status = 403
                      /\ block_user(t, id, users, now).users = users
                      /\ toggle_admin_cookie(t, id, users, now).status = 403
                      /\ toggle_admin_cookie(t, id, users, now).users = users

\* Nobody is blocked, so a 403 from block_user is the admin guard's.
C4_Witness ==
    /\ resp.op = "block_user" /\ resp.status = 403
    /\ \A i \in Rows : ~users[i].is_blocked
    /\ \E t \in issued :
          LET r == get_current_user(t, users, now)
          IN  r.status = 200 /\ ~users[r.uid].is_admin

\* C5: required mode answers 401 when there is no token or the token does
\* not decode, 403 when the subject names no row or a blocked row, and in
\* every other case returns the row whose username is the subject.
C5_RequiredMode ==
    \A t \in TokenInputs :
        LET r == get_current_user(t, users, now)
            undecodable == t.kind # "jwt" \/ t.exp < now
        IN  IF undecodable
            THEN r.status = 401 /\ r.uid = 0
            ELSE IF RowsNamed(t.sub) = {}
                    \/ \E i \in RowsNamed(t.sub) : users[i].is_blocked
            THEN r.status = 403 /\ r.uid = 0
            ELSE /\ r.status = 200
                 /\ r.uid \in Rows
                 /\ users[r.uid].username = t.sub

\* Every account is an admin and one is blocked after it logged in: the
\* 403 that GET /admin has just answered is required mode's.
C5_Witness ==
    /\ resp.op = "admin_panel" /\ resp.status = 403
    /\ \A i \in Rows : users[i].is_admin
    /\ \E i \in Rows :
          /\ users[i].is_blocked
          /\ \E t \in issued : t.sub = users[i].username /\ t.exp >= now

\* C6: optional mode returns no user for a token that is absent, does not
\* decode, is expired, has no subject, or whose subject names no row or a
\* blocked row; and it returns user u exactly when required mode returns u.
C6_OptionalMode ==
    \A t \in TokenInputs \cup {NoSubToken(e) : e \in 0..(MaxTime + TokenTTL)} :
        LET o == get_current_user_optional(t, users, now)
            r == get_current_user(t, users, now)
            failing ==
                \/ t.kind # "jwt"
                \/ t.exp < now
                \/ RowsNamed(t.sub) = {}
                \/ \E i \in RowsNamed(t.sub) : users[i].is_blocked
        IN  /\ o \in Rows \cup {0}
            /\ failing => o = 0
            /\ (o # 0) <=> (r.status = 200)
            /\ r.status = 200 => o = r.uid

\* GET / has just been rendered for a user that optional mode returned,
\* while another token in circulation resolves to no user.
C6_Witness ==
    /\ resp.op = "index" /\ resp.user # 0
    /\ \E t \in issued : get_current_user_optional(t, users, now) = 0
    /\ \E t \in issued : get_current_user_optional(t, users, now) = resp.user

\* C7: login sets a token iff the username names a row, the password
\* verifies against that row's hash and the row is not blocked, and the
\* token's subject is the submitted username; it answers 401 for an unknown
\* username or a wrong password, 403 for correct credentials of a blocked
\* user; it never changes the users table.
C7_Login ==
    \A u \in Usernames, p \in Passwords :
        LET out == login(u, p, users, now)
            known == RowsNamed(u) # {}
            verified == \E i \in RowsNamed(u) :
                            verify_password(p, users[i].password)
            blocked == \E i \in RowsNamed(u) : users[i].is_blocked
        IN  /\ (out.cookie = "set") <=> (known /\ verified /\ ~blocked)
            /\ out.cookie = "set" =>
                  /\ out.status = 302
                  /\ out.token.kind = "jwt"
                  /\ out.token.sub = u
            /\ out.cookie # "set" => out.token = NoToken
            /\ (~known \/ ~verified) => out.status = 401
            /\ (known /\ verified /\ blocked) => out.status = 403
            /\ out.users = users

\* A login has just handed out a token, an earlier one sits beside it.
C7_Witness ==
    /\ resp.op = "login" /\ resp.status = 302 /\ resp.cookie = "set"
    /\ resp.token \in issued
    /\ RowsNamed(resp.token.sub) # {}
    /\ Cardinality(issued) >= 2

\* C8: register with a username that names a row is rejected and leaves
\* the users table as it was; no two rows have the same username; a row
\* register adds has is_blocked = FALSE.
C8_UniqueUsername ==
    /\ \A i, j \in Rows : users[i].username = users[j].username => i = j
    /\ \A u \in Usernames, p \in Passwords :
          LET out == register(u, p, users)
          IN  IF RowsNamed(u) # {}
              THEN out.status # 302 /\ out.users = users
              ELSE /\ out.status = 302
                   /\ Len(out.users) = Len(users) + 1
                   /\ SubSeq(out.users, 1, Len(users)) = users
                   /\ out.users[Len(out.users)].username = u
                   /\ ~out.users[Len(out.users)].is_blocked

\* A register for a taken username has just been rejected.
C8_Witness ==
    /\ resp.op = "register" /\ resp.status = 500
    /\ Len(users) >= 1

\* C9: a token login handed out for u resolves to u in both modes at every
\* time before its expiry unless u is blocked; at every time after its
\* expiry required mode answers 401 and optional mode returns no user.
C9_TokenLifetime ==
    \A t \in issued :
        LET r == get_current_user(t, users, now)
            o == get_current_user_optional(t, users, now)
        IN  /\ t.kind = "jwt"
            /\ RowsNamed(t.sub) # {}
            /\ (now < t.exp /\ \A i \in RowsNamed(t.sub) : ~users[i].is_blocked)
                  => /\ r.status = 200
                     /\ users[r.uid].username = t.sub
                     /\ o = r.uid
            /\ now > t.exp => r.status = 401 /\ o = 0

\* One token in circulation has expired, another has not and its user is
\* not blocked; GET /admin has just answered 401.
C9_Witness ==
    /\ \E t \in issued : now > t.exp
    /\ \E t \in issued :
          /\ now < t.exp
          /\ \A i \in RowsNamed(t.sub) : ~users[i].is_blocked
    /\ resp.op = "admin_panel" /\ resp.status = 401

\* C10: a logout step leaves the users table alone, and every token in
\* circulation resolves after it, in both modes, as it did before it; the
\* response only deletes the cookie.
C10_StatelessLogout ==
    [][resp'.op = "logout" =>
          /\ users' = users
          /\ issued' = issued
          /\ resp'.cookie = "delete"
          /\ \A t \in Presentable :
                /\ get_current_user(t, users', now')
                      = get_current_user(t, users, now)
                /\ get_current_user_optional(t, users', now')
                      = get_current_user_optional(t, users, now)]_vars

\* After a logout a token handed out before it still resolves to its user.
C10_Witness ==
    /\ resp.op = "logout"
    /\ \E t \in issued :
          /\ get_current_user(t, users, now).status = 200
          /\ get_current_user_optional(t, users, now) # 0

\* The rows of table whose is_admin or is_blocked differs in table2.
FlagChanges(table, table2) ==
    {i \in 1..Len(table) :
        \/ table[i].is_admin # table2[i].is_admin
        \/ table[i].is_blocked # table2[i].is_blocked}

\* Token t resolves to an unblocked admin whose id is not id.
AdminOtherThan(t, id) ==
    LET r == get_current_user(t, users, now)
    IN  /\ r.status = 200
        /\ users[r.uid].is_admin
        /\ ~users[r.uid].is_blocked
        /\ users[r.uid].id # id

\* C11: rows are added only by a register step and never removed; a row's
\* id, username and password never change; a row's is_admin or is_blocked
\* changes only in a block or make_admin step answered 302, and such a
\* request changes the table only when its caller resolves to an unblocked
\* admin other than the target; a toggle changes one flag of one row: block
\* leaves is_admin alone and make_admin leaves is_blocked alone.
C11_Lifecycle ==
    /\ [](\A t \in Presentable, id \in UserIds :
            LET b == block_user(t, id, users, now).users
                m == toggle_admin_cookie(t, id, users, now).users
            IN  /\ b # users =>
                      /\ AdminOtherThan(t, id)
                      /\ FlagChanges(users, b) = {id}
                      /\ b[id].is_blocked # users[id].is_blocked
                      /\ b[id].is_admin = users[id].is_admin
                /\ m # users =>
                      /\ AdminOtherThan(t, id)
                      /\ FlagChanges(users, m) = {id}
                      /\ m[id].is_admin # users[id].is_admin
                      /\ m[id].is_blocked = users[id].is_blocked)
    /\ [][/\ Len(users') >= Len(users)
          /\ Len(users') > Len(users) => resp'.op = "register"
          /\ \A i \in Rows :
                /\ users'[i].id = users[i].id
                /\ users'[i].username = users[i].username
                /\ users'[i].password = users[i].password
          /\ FlagChanges(users, users') # {} =>
                /\ resp'.op \in {"block_user", "make_admin"}
                /\ resp'.status = 302
                /\ Cardinality(FlagChanges(users, users')) = 1
                /\ \A i \in FlagChanges(users, users') :
                      /\ \E t \in Presentable : AdminOtherThan(t, i)
                      /\ resp'.op = "block_user" =>
                            users'[i].is_admin = users[i].is_admin
                      /\ resp'.op = "make_admin" =>
                            users'[i].is_blocked = users[i].is_blocked]_vars

\* A make_admin toggle has just promoted the second account.
C11_Witness ==
    /\ resp.op = "make_admin" /\ resp.status = 302
    /\ Len(users) = 2
    /\ users[1].is_admin /\ users[2].is_admin
    /\ ~users[1].is_blocked /\ ~users[2].is_blocked

\* C13: while user u has is_blocked = TRUE, a login for u sets no token
\* whatever the password, required mode fails and optional mode returns no
\* user for every token whose subject is u, and no block or make_admin
\* request made with such a token changes the table.
C13_BlockedLockedOut ==
    \A i \in Rows :
        users[i].is_blocked =>
            /\ \A p \in Passwords :
                  LET out == login(users[i].username, p, users, now)
                  IN  /\ out.status \in {401, 403}
                      /\ out.cookie # "set"
                      /\ out.token = NoToken
            /\ \A t \in TokenInputs :
                  t.sub = users[i].username =>
                      /\ get_current_user(t, users, now).status \in {401, 403}
                      /\ get_current_user(t, users, now).uid = 0
                      /\ get_current_user_optional(t, users, now) = 0
                      /\ \A id \in UserIds :
                            /\ block_user(t, id, users, now).status
                                  \in {401, 403}
                            /\ block_user(t, id, users, now).users = users
                            /\ toggle_admin_cookie(t, id, users, now).status
                                  \in {401, 403}
                            /\ toggle_admin_cookie(t, id, users, now).users
                                  = users

\* Both accounts are admins, one of them is blocked and holds a token that
\* has not expired; a make_admin request has just been answered 403.
C13_Witness ==
    /\ resp.op = "make_admin" /\ resp.status = 403
    /\ Len(users) = 2
    /\ \A i \in Rows : users[i].is_admin
    /\ \E i \in Rows :
          /\ users[i].is_blocked
          /\ \E t \in issued : t.sub = users[i].username /\ t.exp >= now

\* C14: GET /offer/{id} renders the offer only for a token that resolves to
\* a row that is not blocked; for every other request it redirects to
\* /login, never answering 401 or 403, whether or not the offer exists.
C14_OfferPage ==
    \A t \in TokenInputs, o \in OfferIds :
        LET out == offer_page(t, o, users, now)
            resolved ==
                /\ t.kind = "jwt"
                /\ t.exp >= now
                /\ RowsNamed(t.sub) # {}
                /\ \A i \in RowsNamed(t.sub) : ~users[i].is_blocked
        IN  /\ out.status \notin {401, 403}
            /\ out.users = users
            /\ out.status = 200 =>
                  /\ resolved
                  /\ o \in OFFERS
                  /\ out.user \in RowsNamed(t.sub)
            /\ ~resolved =>
                  /\ out.status = 302
                  /\ out.location = "/login"

\* A blocked account holds a token that has not expired and GET /offer has
\* just redirected.
C14_Witness ==
    /\ resp.op = "offer_page" /\ resp.status = 302
    /\ \E i \in Rows :
          /\ users[i].is_blocked
          /\ \E t \in issued : t.sub = users[i].username /\ t.exp >= now

\* The one outcome the claimed order of checks gives a toggle request:
\* required mode's failure first, then 403 for a caller who is no admin,
\* then 404 for an id no row has, then 400 for the caller's own id, and
\* 302 otherwise.
ExpectedToggleStatus(t, id) ==
    LET r == get_current_user(t, users, now)
    IN  IF r.status # 200 THEN r.status
        ELSE IF ~users[r.uid].is_admin THEN 403
        ELSE IF id \notin Rows THEN 404
        ELSE IF id = users[r.uid].id THEN 400
        ELSE 302

\* C15: block and make_admin answer with the outcome of the first check
\* that fails, in the order authentication, admin, target exists, target
\* is not the caller; only the 302 outcome changes the table, and it flips
\* the one flag.
C15_ToggleCheckOrder ==
    \A t \in Presentable \cup {EmptyToken}, id \in UserIds :
        LET b == block_user(t, id, users, now)
            m == toggle_admin_cookie(t, id, users, now)
            e == ExpectedToggleStatus(t, id)
        IN  /\ b.status = e
            /\ m.status = e
            /\ e \in {401, 403, 404, 400, 302}
            /\ e # 302 => b.users = users /\ m.users = users
            /\ e = 302 =>
                  /\ b.users = [users EXCEPT ![id].is_blocked = ~@]
                  /\ m.users = [users EXCEPT ![id].is_admin = ~@]

\* A non-admin holds a token that resolves, so its request for the id no
\* row has is answered 403; a block request has just been answered 404.
C15_Witness ==
    /\ resp.op = "block_user" /\ resp.status = 404
    /\ \E t \in issued :
          LET r == get_current_user(t, users, now)
          IN  /\ r.status = 200
              /\ ~users[r.uid].is_admin
              /\ block_user(t, Len(users) + 1, users, now).status = 403

\* C16: with requests handled one at a time, every reachable state with at
\* least one row has a row with is_admin = TRUE and is_blocked = FALSE.
C16_UnblockedAdminExists ==
    Len(users) > 0 =>
        \E i \in Rows : users[i].is_admin /\ ~users[i].is_blocked

\* The first account has lost its admin flag and is blocked; the second
\* account is the unblocked admin.
C16_Witness ==
    /\ Len(users) = 2
    /\ ~users[1].is_admin /\ users[1].is_blocked
    /\ users[2].is_admin /\ ~users[2].is_blocked
    /\ resp.op = "block_user" /\ resp.status = 302

Apply(r, table) ==
    IF r.op = "register"
    THEN register(r.username, OwnPassword[r.username], table).users
    ELSE IF r.op = "block_user"
    THEN block_user(r.token, r.user_id, table, now).users
    ELSE toggle_admin_cookie(r.token, r.user_id, table, now).users

\* Both workers have answered their request.
BothDone == \A w \in Workers : inflight[w].pc = "done"

\* The request has written a flag.
WritesFlag(r) == r.op \in {"block_user", "make_admin"} /\ r.seq > 0

\* The id of the row the request's caller resolved to.
CallerId(r) == FirstByUsername(base, r.token.sub)

\* C12: once two requests that ran side by side have both been answered,
\* the table is the one that handling them one after the other, in one of
\* the two orders, gives from the table they began with, unless both wrote
\* a flag of the same row; and then a flag both wrote has the value of the
\* request that committed last.
C12_SerialOrLastWriter ==
    BothDone =>
        LET r1 == inflight[1]
            r2 == inflight[2]
        IN  IF WritesFlag(r1) /\ WritesFlag(r2) /\ r1.user_id = r2.user_id
            THEN \A w \in Workers :
                    LET r == inflight[w]
                        o == inflight[3 - w]
                        last == IF o.op = r.op /\ o.seq > r.seq THEN o ELSE r
                    IN  IF r.op = "block_user"
                        THEN users[r.user_id].is_blocked = last.flag
                        ELSE users[r.user_id].is_admin = last.flag
            ELSE \/ users = Apply(r2, Apply(r1, base))
                 \/ users = Apply(r1, Apply(r2, base))

\* C18: when two registers for different usernames have run side by side on
\* an empty table and both rows are stored, at most one row is an admin.
C18_OneBootstrapAdmin ==
    (/\ BothDone
     /\ base = <<>>
     /\ \A w \in Workers :
           inflight[w].op = "register" /\ inflight[w].status = 302)
        => Cardinality({i \in Rows : users[i].is_admin}) <= 1

\* C19: when two admins have toggled a flag of each other side by side and
\* both requests are committed, some row is an admin and not blocked.
C19_AdminSurvivesCrossToggle ==
    (/\ BothDone
     /\ \A w \in Workers :
           /\ WritesFlag(inflight[w])
           /\ inflight[w].user_id = CallerId(inflight[3 - w])
           /\ inflight[w].user_id # CallerId(inflight[w]))
        => \E i \in Rows : users[i].is_admin /\ ~users[i].is_blocked

====
